---- MODULE Spec2Model ----
(***************************************************************************)
(* A model of src/app.js, the UK postcode enricher: the Normalizer         *)
(* (parsePostcodes), the Batch Enricher (fetchBatch, enrich), the CSV      *)
(* Exporter (toCSV), the Table Renderer (renderTable) and the Controller   *)
(* (the click handlers of the run and download buttons).                   *)
(*                                                                         *)
(* A JavaScript string is a sequence of one-character strings, so that     *)
(* upper-casing, compaction, the postcode pattern, CSV quoting and CSV     *)
(* parsing are computed character by character, as the code computes them. *)
(* Operators over long texts avoid deep recursion (they use function       *)
(* constructors, SelectSeq and balanced recursion).                        *)
(***************************************************************************)
EXTENDS Integers, Sequences, FiniteSets, TLC

(***************************************************************************)
(* Characters                                                              *)
(***************************************************************************)
UpperSeq == <<"A","B","C","D","E","F","G","H","I","J","K","L","M",
              "N","O","P","Q","R","S","T","U","V","W","X","Y","Z">>
LowerSeq == <<"a","b","c","d","e","f","g","h","i","j","k","l","m",
              "n","o","p","q","r","s","t","u","v","w","x","y","z">>
DigitSeq == <<"0","1","2","3","4","5","6","7","8","9">>

Range(f) == {f[i] : i \in DOMAIN f}

Letters == Range(UpperSeq)
Lowers == Range(LowerSeq)
Digits == Range(DigitSeq)
\* the characters String.prototype.trim removes, among those of the model
WhiteSpace == {" ", "\t", "\n", "\r"}

Min(a, b) == IF a < b THEN a ELSE b
Max(a, b) == IF a < b THEN b ELSE a

\* String.prototype.toUpperCase, on one character of the model's alphabet
UpperChar(c) ==
    IF c \in Lowers
    THEN UpperSeq[CHOOSE i \in 1..26 : LowerSeq[i] = c]
    ELSE c

toUpperCase(s) == [i \in 1..Len(s) |-> UpperChar(s[i])]

IsAlnum(c) == c \in Letters \/ c \in Digits

\* String.prototype.trim
trim(s) ==
    LET keep == {i \in 1..Len(s) : s[i] \notin WhiteSpace}
    IN  IF keep = {} THEN <<>>
        ELSE LET lo == CHOOSE i \in keep : \A j \in keep : i <= j
                 hi == CHOOSE i \in keep : \A j \in keep : j <= i
             IN  SubSeq(s, lo, hi)

\* the concatenation of ss[lo..hi], each followed by sep except the last
RECURSIVE JoinRange(_, _, _, _)
JoinRange(ss, sep, lo, hi) ==
    IF lo > hi THEN <<>>
    ELSE IF lo = hi THEN ss[lo]
    ELSE LET mid == (lo + hi) \div 2
         IN  JoinRange(ss, sep, lo, mid) \o sep \o JoinRange(ss, sep, mid + 1, hi)

\* Array.prototype.join (the array is evaluated once, then joined)
Join(ss, sep) == CHOOSE out \in {JoinRange(arr, sep, 1, Len(arr)) : arr \in {ss}} : TRUE

(***************************************************************************)
(* Normalizer: parsePostcodes (src/app.js 28-45)                           *)
(***************************************************************************)
\* /^([A-Z]{1,2}\d[A-Z\d]?)(\d[A-Z]{2})$/ : the inward part is the last
\* three characters, the outward part is what precedes them
ShapeMatchInwardOnly(c) ==
    LET n == Len(c)
    IN  /\ n >= 5
        /\ c[n - 2] \in Digits /\ c[n - 1] \in Letters /\ c[n] \in Letters

ShapeMatch(c) ==
    LET n == Len(c)
    IN  /\ n >= 5
        /\ c[n - 2] \in Digits /\ c[n - 1] \in Letters /\ c[n] \in Letters
        /\ \E a \in {1, 2}, b \in {0, 1} :
              /\ a + 1 + b = n - 3
              /\ \A i \in 1..a : c[i] \in Letters
              /\ c[a + 1] \in Digits
              /\ b = 1 => IsAlnum(c[a + 2])

\* s.toUpperCase().replace(/[^A-Z0-9]/g, '')
Compact(s) == SelectSeq(toUpperCase(s), IsAlnum)

\* the length test of line 31
LengthOkWide(compact) == Len(compact) >= 4 /\ Len(compact) <= 9
LengthOk(compact) == ~(Len(compact) < 5 \/ Len(compact) > 8)

normalize(s) ==
    LET compact == Compact(s)
    IN  IF ~LengthOk(compact) THEN <<>>
        ELSE IF ShapeMatch(compact)
             THEN SubSeq(compact, 1, Len(compact) - 3) \o <<" ">>
                  \o SubSeq(compact, Len(compact) - 2, Len(compact))
             ELSE compact

\* commas and blanks alike taken as separators
CommasAndBlanksToNewlines(raw) ==
    [i \in 1..Len(raw) |-> IF raw[i] \in {",", " "} THEN "\n" ELSE raw[i]]

\* raw.replace(/,/g, '\n')
CommasToNewlines(raw) == [i \in 1..Len(raw) |-> IF raw[i] = "," THEN "\n" ELSE raw[i]]

\* .split(/\r?\n/): the pieces between the line feeds, a carriage return
\* right before a line feed being part of the separator
SplitLines(s) ==
    LET n == Len(s)
        nl == {i \in 1..n : s[i] = "\n"}
        m == Cardinality(nl)
        \* position of the k-th line feed; 0 for k = 0, n + 1 for k = m + 1
        at == [k \in 0..(m + 1) |->
                 IF k = 0 THEN 0
                 ELSE IF k = m + 1 THEN n + 1
                 ELSE CHOOSE p \in nl : Cardinality({q \in nl : q <= p}) = k]
    IN  [k \in 1..(m + 1) |->
           LET lo == at[k - 1] + 1
               hi0 == at[k] - 1
               hi == IF k <= m /\ hi0 >= lo /\ s[hi0] = "\r" THEN hi0 - 1 ELSE hi0
           IN  SubSeq(s, lo, hi)]

NonEmpty(s) == s # <<>>

\* lines 34-38: the normalized tokens, empty ones filtered out
Tokens(raw) ==
    LET pieces == SplitLines(CommasToNewlines(raw))
    IN  SelectSeq([k \in 1..Len(pieces) |-> normalize(trim(pieces[k]))], NonEmpty)

\* lines 39-43: the loop over tokens[lo..hi] entered with the set `seen`,
\* giving the codes it pushes to `out`.  The loop over lo..hi is the loop
\* over lo..mid followed by the loop over mid+1..hi, which is entered with
\* `seen` grown by the tokens of lo..mid.
DedupLoopNoCheck(tokens, lo, hi, seen) == SubSeq(tokens, lo, hi)

RECURSIVE DedupLoop(_, _, _, _)
DedupLoop(tokens, lo, hi, seen) ==
    IF lo > hi THEN <<>>
    ELSE IF lo = hi
         THEN IF tokens[lo] \notin seen THEN <<tokens[lo]>> ELSE <<>>
         ELSE LET mid == (lo + hi) \div 2
              IN  DedupLoop(tokens, lo, mid, seen)
                  \o DedupLoop(tokens, mid + 1, hi,
                               seen \cup {tokens[k] : k \in lo..mid})

parsePostcodes(raw) ==
    LET tokens == Tokens(raw)
    IN  DedupLoop(tokens, 1, Len(tokens), {})

(***************************************************************************)
(* JavaScript values.  A text is a sequence of one-character strings; the  *)
(* values that are not texts are sequences whose first element is a longer *)
(* tag, so that they differ from every text.                               *)
(***************************************************************************)
Undefined == <<"undefined">>
Null == <<"null">>
Num(digits) == <<"number">> \o digits

IsNumber(v) == v # <<>> /\ v[1] = "number"
\* v == null
Nullish(v) == v = Null \/ v = Undefined
\* !v, for the values of the model (no number of the model is 0)
Falsy(v) == Nullish(v) \/ v = <<>>
\* String(v) of a text or a number
String(v) == IF IsNumber(v) THEN Tail(v) ELSE v
\* obj[key]
Get(obj, key) == IF key \in DOMAIN obj THEN obj[key] ELSE Undefined

(***************************************************************************)
(* Constants of src/app.js                                                 *)
(***************************************************************************)
MAX_BATCH == 100
MaxAttempts == 3
BackoffUnit == 750
ChunkPause == 80
TableCap == 500

PostcodeKey == "postcode"
FIELDS ==
    << "country",
       "nhs_ha",
       "admin_county",
       "admin_district",
       "admin_ward",
       "parliamentary_constituency",
       "european_electoral_region",
       "primary_care_trust",
       "region",
       "parish",
       "latitude",
       "longitude" >>

\* the characters of each property name
NameChars ==
    [ postcode |-> <<"p","o","s","t","c","o","d","e">>,
      country |-> <<"c","o","u","n","t","r","y">>,
      nhs_ha |-> <<"n","h","s","_","h","a">>,
      admin_county |-> <<"a","d","m","i","n","_","c","o","u","n","t","y">>,
      admin_district |-> <<"a","d","m","i","n","_","d","i","s","t","r","i","c","t">>,
      admin_ward |-> <<"a","d","m","i","n","_","w","a","r","d">>,
      parliamentary_constituency |-> <<"p","a","r","l","i","a","m","e","n","t","a","r","y","_","c","o","n","s","t","i","t","u","e","n","c","y">>,
      european_electoral_region |-> <<"e","u","r","o","p","e","a","n","_","e","l","e","c","t","o","r","a","l","_","r","e","g","i","o","n">>,
      primary_care_trust |-> <<"p","r","i","m","a","r","y","_","c","a","r","e","_","t","r","u","s","t">>,
      region |-> <<"r","e","g","i","o","n">>,
      parish |-> <<"p","a","r","i","s","h">>,
      latitude |-> <<"l","a","t","i","t","u","d","e">>,
      longitude |-> <<"l","o","n","g","i","t","u","d","e">> ]

Chars(name) == NameChars[name]

FieldSet == Range(FIELDS)

\* line 159: ['postcode', ...FIELDS]
Header == <<PostcodeKey>> \o FIELDS

(***************************************************************************)
(* Batch Enricher: the mapping of one result item to a row (lines 90-98)   *)
(* An item is [kind, query, res]: kind "null" is a null element of the     *)
(* result array, "nomatch" is {query, result: null} and "match" is         *)
(* {query, result: res}.                                                   *)
(***************************************************************************)
HasResult(item) == item.kind = "match"

\* (res?.postcode || item.query || '').toUpperCase()
RowPostcode(item) ==
    LET fromRes == IF HasResult(item) THEN Get(item.res, PostcodeKey) ELSE Undefined
    IN  toUpperCase(IF ~Falsy(fromRes) THEN fromRes
                    ELSE IF ~Falsy(item.query) THEN item.query
                    ELSE <<>>)

\* let v = res ? (res[f] ?? '') : ''; if (v == null) v = '';
RowField(item, f) ==
    IF HasResult(item)
    THEN IF Nullish(Get(item.res, f)) THEN <<>> ELSE Get(item.res, f)
    ELSE <<>>

RowOf(item) ==
    [k \in {PostcodeKey} \cup FieldSet |->
        IF k = PostcodeKey THEN RowPostcode(item) ELSE RowField(item, k)]

\* item.result of line 91 throws a TypeError when item is null
ThrowsOnItem(item) == item.kind = "null"

\* lines 90-99 over a whole result array: the thrown error, or the rows
MapThrows(result) == \E k \in 1..Len(result) : ThrowsOnItem(result[k])
MapRows(result) == [k \in 1..Len(result) |-> RowOf(result[k])]

\* line 69: data.result || []
ResultOrEmpty(data) == IF data.hasResult THEN data.result ELSE <<>>

\* line 77: postcodes.slice(i, i + MAX_BATCH)
ChunkAtToEnd(postcodes, i) == SubSeq(postcodes, i + 1, Len(postcodes))
ChunkAt(postcodes, i) == SubSeq(postcodes, i + 1, Min(i + MAX_BATCH, Len(postcodes)))

(***************************************************************************)
(* CSV Exporter: toCSV (lines 106-117)                                     *)
(***************************************************************************)
\* /[",\n]/.test(str)
NeedsQuotes(str) == \E i \in 1..Len(str) : str[i] \in {"\"", ",", "\n"}

\* str.replace(/"/g, '""')
DoubleQuotes(str) ==
    Join([i \in 1..Len(str) |-> IF str[i] = "\"" THEN <<"\"", "\"">> ELSE <<str[i]>>], <<>>)

esc(s) ==
    IF Nullish(s) THEN <<>>
    ELSE LET str == String(s)
         IN  IF NeedsQuotes(str) THEN <<"\"">> \o DoubleQuotes(str) \o <<"\"">>
             ELSE str

CsvLine(r, header) == Join([h \in 1..Len(header) |-> esc(Get(r, header[h]))], <<",">>)

toCSV(rows, header) ==
    LET lines == <<Join([h \in 1..Len(header) |-> Chars(header[h])], <<",">>)>>
                 \o [k \in 1..Len(rows) |-> CsvLine(rows[k], header)]
    IN  Join(lines, <<"\n">>)

(***************************************************************************)
(* Table Renderer: renderTable (lines 119-142)                             *)
(***************************************************************************)
\* td.textContent = r[h] ?? ''
Cell(v) == IF Nullish(v) THEN <<>> ELSE String(v)

\* line 134: the rows that get a line of the table
TableOfUncapped(rows, header) ==
    [head |-> header,
     body |-> [k \in 1..Len(rows) |->
                 [h \in 1..Len(header) |-> Cell(Get(rows[k], header[h]))]]]

\* the table built by lines 125-141, for a non-empty row list
TableOf(rows, header) ==
    [head |-> header,
     body |-> [k \in 1..Min(Len(rows), TableCap) |->
                 [h \in 1..Len(header) |-> Cell(Get(rows[k], header[h]))]]]

(***************************************************************************)
(* The environment: what the user may type and what the API may answer     *)
(***************************************************************************)
MaxRuns == 2

\* the number of codes of the long input: one more than a full batch
BigN == MAX_BATCH + 1

\* BigN lines "A<ddd>AA", ddd the line number in three digits
BigRaw ==
    [p \in 1..(BigN * 7) |->
        LET k == ((p - 1) \div 7) + 1
            o == (p - 1) % 7
        IN  CASE o = 0 -> "A"
              [] o = 1 -> DigitSeq[((k \div 100) % 10) + 1]
              [] o = 2 -> DigitSeq[((k \div 10) % 10) + 1]
              [] o = 3 -> DigitSeq[(k % 10) + 1]
              [] o = 4 -> "A"
              [] o = 5 -> "A"
              [] OTHER -> "\n"]

RawNone == <<"a","b",","," ","1","2","-","3","4">>
RawOne == <<"s","w","1","a"," ","1","a","a">>
RawTwo == <<"A","B","1"," ","2","C","D",",","a","b","1","2","c","d","\r","\n","m","1","9","a","e">>
RawNull == <<"b","1"," ","8","a","b","\n","z","z","9","9"," ","9","z","z">>

\* the texts input.value may hold when the run button is clicked
Inputs == {<<>>, RawNone, RawOne, RawTwo, RawNull, BigRaw}

\* parsePostcodes of each input, computed once
Parsed == [raw \in Inputs |-> parsePostcodes(raw)]

\* the values the API gives the fields of a matched postcode
ApiField(f) ==
    CASE f = "country" -> <<"G", ",", "B">>
      [] f = "latitude" -> Num(<<"5", "1">>)
      [] f = "longitude" -> Num(<<"-", "2">>)
      [] OTHER -> <<"x">>

\* The API is a lookup: what it answers for a code depends on the code
\* alone.  In the model the kind of the answer is read off the code: a null
\* element for the codes in Z, and by the digit of the inward part no match
\* (9), a match with no postcode, a null field and absent fields (8), or a
\* full match.
ApiKind(code) ==
    IF code[1] = "Z" THEN "null"
    ELSE IF Len(code) >= 3 /\ code[Len(code) - 2] = "9" THEN "nomatch"
    ELSE IF Len(code) >= 3 /\ code[Len(code) - 2] = "8" THEN "sparse"
    ELSE "full"

\* one element of the result array, for the queried code
ApiItem(code) ==
    LET kind == ApiKind(code)
    IN  CASE kind = "null" -> [kind |-> "null", query |-> Undefined, res |-> <<>>]
          [] kind = "nomatch" -> [kind |-> "nomatch", query |-> code, res |-> <<>>]
          [] kind = "full" ->
                [kind |-> "match", query |-> code,
                 res |-> [k \in {PostcodeKey} \cup FieldSet |->
                            IF k = PostcodeKey THEN code ELSE ApiField(k)]]
          [] OTHER ->
                [kind |-> "match", query |-> code,
                 res |-> [k \in {"country", "nhs_ha", "latitude"} |->
                            IF k = "nhs_ha" THEN Null ELSE ApiField(k)]]

ApiResult(chunk) == [k \in 1..Len(chunk) |-> ApiItem(chunk[k])]

\* the JSON bodies of a 2xx response to a request carrying chunk: the
\* result array, or a body with no result
ApiData(chunk) ==
    {[hasResult |-> TRUE, result |-> ApiResult(chunk)],
     [hasResult |-> FALSE, result |-> <<>>]}

(***************************************************************************)
(* Controller state                                                        *)
(***************************************************************************)
VARIABLES
    runDisabled,      \* runBtn.disabled
    downloadDisabled, \* downloadBtn.disabled
    statusText,       \* statusEl.textContent
    resultsDisplay,   \* resultsEl.style.display
    table,            \* the content of tableEl
    tableRun,         \* the run whose rows tableEl shows (0: none)
    datasetUrl,       \* downloadBtn.dataset.url (0: unset)
    datasetFilename,  \* downloadBtn.dataset.filename (0: unset)
    blobs,            \* the object URLs created so far, in creation order
    peakLive,         \* the largest number of unrevoked object URLs so far
    nruns,            \* the number of runs started so far
    proc,             \* the activation of the click handler of each run
    inflight,         \* the fetch requests sent and not yet answered
    lastDownload,     \* the last file handed to the browser (url 0: none)
    arg,              \* the argument of the function applied on its own
    ret               \* its result

vars == <<runDisabled, downloadDisabled, statusText, resultsDisplay, table, tableRun,
          datasetUrl, datasetFilename, blobs, peakLive, nruns, proc, inflight,
          lastDownload>>

\* the variables of the specifications that apply one function on its own
fnVars == <<arg, ret>>

Runs == 1..MaxRuns

Status(msg, a, b, n) == [a |-> a, b |-> b, n |-> n, msg |-> msg]
StatusPaste == Status("Please paste at least one postcode.", 0, 0, 0)
\* line 162; enrich replaces it before the handler first awaits
StatusEnriching == Status("Enriching data...", 0, 0, 0)
StatusError == Status("Error enriching data. Please try again.", 0, 0, 0)
StatusFetching(i, n) == Status("Fetching a-b of n", i + 1, Min(i + MAX_BATCH, n), n)
StatusRetrying(attempt) == Status("Rate limited / error, retrying (a)", attempt + 1, 0, 0)
\* line 102; the handler replaces it before it ends (line 178)
StatusDone(n) == Status("Done. n rows.", 0, 0, n)
StatusEnriched(n) == Status("Enriched n postcodes", 0, 0, n)

\* an activation that has not started, or whose locals are gone.  Besides
\* the locals of the handler and of enrich (codes, i, attempt, rows) and the
\* delay of the pending sleep (timer), an activation records what enrich has
\* done so far: the number of requests sent (sent), the number of failed
\* attempts (fails), the delays slept through since the current chunk was
\* first requested (slept) and the codes of the chunks requested (carried).
NoProc(pc) ==
    [pc |-> pc, codes |-> <<>>, i |-> 0, attempt |-> 0, rows |-> <<>>, timer |-> 0,
     sent |-> 0, fails |-> 0, slept |-> 0, carried |-> <<>>]

LiveUrls(bl) == {u \in 1..Len(bl) : bl[u].live}

\* the page as loaded: the download button starts disabled
InitialPage ==
    [runDisabled |-> FALSE, downloadDisabled |-> TRUE,
     statusText |-> Status("", 0, 0, 0)]

PageInit ==
    /\ runDisabled = InitialPage.runDisabled
    /\ downloadDisabled = InitialPage.downloadDisabled
    /\ statusText = InitialPage.statusText
    /\ resultsDisplay \in {"none", "block"}
    /\ table = [head |-> <<>>, body |-> <<>>]
    /\ tableRun = 0
    /\ datasetUrl = 0
    /\ datasetFilename = 0
    /\ blobs = <<>>
    /\ peakLive = 0
    /\ nruns = 0
    /\ proc = [r \in Runs |-> NoProc("none")]
    /\ inflight = {}
    /\ lastDownload = [name |-> 0, url |-> 0]

Init == PageInit /\ arg = <<>> /\ ret = <<>>

(***************************************************************************)
(* enrich (lines 74-104) and the run handler (lines 150-186)               *)
(***************************************************************************)
\* a click reaches the handler only when the button is not disabled
RunClickableAlways == TRUE
RunClickable == ~runDisabled

\* the request fetchBatch sends for the chunk at i (lines 49-58)
Request(r, postcodes, i) == [run |-> r, from |-> i, codes |-> ChunkAt(postcodes, i)]

\* lines 150-157: no valid postcode in the input
RunClickEmpty(raw) ==
    /\ RunClickable
    /\ Parsed[raw] = <<>>
    /\ statusText' = StatusPaste
    /\ UNCHANGED <<runDisabled, downloadDisabled, resultsDisplay, table, tableRun,
                   datasetUrl, datasetFilename, blobs, peakLive, nruns, proc,
                   inflight, lastDownload, arg, ret>>

\* line 161
DownloadDisabledAtStartKept == downloadDisabled
DownloadDisabledAtStart == TRUE

\* enrich entering its loop whatever the length of the list
EnrichEntryNoGuard(r, postcodes) ==
    [returns |-> FALSE, rows |-> <<>>,
     status |-> StatusFetching(0, Len(postcodes)),
     requests |-> {Request(r, postcodes, 0)}]

\* lines 74-82 and 102-103: enrich(postcodes) up to its first await, or up
\* to its return when the loop over the chunks is not entered
EnrichEntry(r, postcodes) ==
    IF ~(0 < Len(postcodes))
    THEN [returns |-> TRUE, rows |-> <<>>, status |-> StatusDone(0), requests |-> {}]
    ELSE [returns |-> FALSE, rows |-> <<>>,
          status |-> StatusFetching(0, Len(postcodes)),
          requests |-> {Request(r, postcodes, 0)}]

\* lines 158-166 and 74-82: the handler, for the codes pcs, up to the first
\* await of fetchBatch
RunClickStartWith(pcs) ==
    LET r == nruns + 1
        entry == EnrichEntry(r, pcs)
    IN  /\ RunClickable
        /\ nruns < MaxRuns
        /\ pcs # <<>>
        /\ nruns' = r
        /\ runDisabled' = TRUE
        /\ downloadDisabled' = DownloadDisabledAtStart
        /\ resultsDisplay' = "none"
        /\ statusText' = entry.status
        /\ proc' = [proc EXCEPT ![r] = [pc |-> "fetch", codes |-> pcs, i |-> 0,
                                        attempt |-> 0, rows |-> entry.rows, timer |-> 0,
                                        sent |-> 1, fails |-> 0, slept |-> 0,
                                        carried |-> ChunkAt(pcs, 0)]]
        /\ inflight' = inflight \cup entry.requests
        /\ UNCHANGED <<table, tableRun, datasetUrl, datasetFilename, blobs, peakLive,
                       lastDownload, arg, ret>>

\* lines 150-166: the click on the run button, the input holding raw
RunClickStart(raw) == RunClickStartWith(Parsed[raw])

\* line 181: the status the catch block sets
FailureStatusKept == statusText
FailureStatus == StatusError

\* line 184: runBtn.disabled of the finally block
RunDisabledAtEndStuck == TRUE
RunDisabledAtEnd == FALSE

\* lines 179-185: the catch and finally blocks of the handler
HandlerFailed(r) ==
    /\ statusText' = FailureStatus
    /\ resultsDisplay' = "none"
    /\ runDisabled' = RunDisabledAtEnd
    /\ proc' = [proc EXCEPT ![r] = NoProc("failed")]
    /\ UNCHANGED <<downloadDisabled, table, tableRun, datasetUrl, datasetFilename,
                   blobs, peakLive, nruns, lastDownload, arg, ret>>

\* lines 170-175: the object URLs after the old one is revoked and the new
\* one created, and the largest number of them alive on the way
ReplaceArtifactLeaking(bl, old, r, csv) ==
    LET created == Append(bl, [run |-> r, text |-> csv, live |-> TRUE])
    IN  [blobs |-> created, url |-> Len(created),
         peak |-> Cardinality(LiveUrls(created))]

ReplaceArtifactStaleUrl(bl, old, r, csv) ==
    LET revoked == IF old # 0
                   THEN [bl EXCEPT ![old] = [run |-> @.run, text |-> <<>>, live |-> FALSE]]
                   ELSE bl
        created == Append(revoked, [run |-> r, text |-> csv, live |-> TRUE])
    IN  [blobs |-> created, url |-> IF old # 0 THEN old ELSE Len(created),
         peak |-> Max(Cardinality(LiveUrls(revoked)), Cardinality(LiveUrls(created)))]

ReplaceArtifact(bl, old, r, csv) ==
    LET revoked == IF old # 0
                   THEN [bl EXCEPT ![old] = [run |-> @.run, text |-> <<>>, live |-> FALSE]]
                   ELSE bl
        created == Append(revoked, [run |-> r, text |-> csv, live |-> TRUE])
    IN  [blobs |-> created, url |-> Len(created),
         peak |-> Max(Cardinality(LiveUrls(revoked)), Cardinality(LiveUrls(created)))]

\* lines 166-178 and 183-185: the handler after enrich has returned rows
HandlerCompleted(r, rows) ==
    \E csv \in {toCSV(rows, Header)} :
    \E art \in {ReplaceArtifact(blobs, datasetUrl, r, csv)} :
        /\ resultsDisplay' = IF rows = <<>> THEN "none" ELSE "block"
        /\ table' = IF rows = <<>> THEN table ELSE TableOf(rows, Header)
        /\ tableRun' = IF rows = <<>> THEN tableRun ELSE r
        /\ blobs' = art.blobs
        /\ peakLive' = Max(peakLive, art.peak)
        /\ datasetUrl' = art.url
        /\ datasetFilename' = art.url
        /\ downloadDisabled' = FALSE
        /\ statusText' = StatusEnriched(Len(rows))
        /\ runDisabled' = RunDisabledAtEnd
        /\ proc' = [proc EXCEPT ![r] = NoProc("done")]
        /\ UNCHANGED <<nruns, lastDownload, arg, ret>>

\* the request of run r that is awaited
Awaited(r) == Request(r, proc[r].codes, proc[r].i)

\* lines 63-65 and 84-86: the response is not ok, or fetch or resp.json()
\* throws; the catch block sets the status and sleeps
FetchFail(r) ==
    /\ proc[r].pc = "fetch"
    /\ Awaited(r) \in inflight
    /\ inflight' = inflight \ {Awaited(r)}
    /\ statusText' = StatusRetrying(proc[r].attempt)
    /\ proc' = [proc EXCEPT ![r].pc = "backoff",
                            ![r].timer = BackoffUnit * (proc[r].attempt + 1),
                            ![r].fails = @ + 1]
    /\ UNCHANGED <<runDisabled, downloadDisabled, resultsDisplay, table, tableRun,
                   datasetUrl, datasetFilename, blobs, peakLive, nruns, lastDownload,
                   arg, ret>>

\* lines 65-69, 83 and 89-100: the response is ok and every item maps to a
\* row; enrich sleeps before the next chunk
FetchOk(r, data) ==
    LET result == ResultOrEmpty(data)
    IN  /\ proc[r].pc = "fetch"
        /\ Awaited(r) \in inflight
        /\ ~MapThrows(result)
        /\ inflight' = inflight \ {Awaited(r)}
        /\ proc' = [proc EXCEPT ![r].pc = "pause",
                                ![r].rows = @ \o MapRows(result),
                                ![r].timer = ChunkPause]
        /\ UNCHANGED <<runDisabled, downloadDisabled, statusText, resultsDisplay, table,
                       tableRun, datasetUrl, datasetFilename, blobs, peakLive, nruns,
                       lastDownload, arg, ret>>

\* lines 65-69, 83 and 89-91: the response is ok and mapping an item throws
FetchOkThrows(r, data) ==
    LET result == ResultOrEmpty(data)
    IN  /\ proc[r].pc = "fetch"
        /\ Awaited(r) \in inflight
        /\ MapThrows(result)
        /\ inflight' = inflight \ {Awaited(r)}
        /\ HandlerFailed(r)

\* line 80: attempt < 3
AttemptsLeftOneMore(attempt) == attempt < MaxAttempts + 1
AttemptsLeft(attempt) == attempt < MaxAttempts

\* lines 86, 80-82: the backoff sleep ends and another attempt is made
BackoffRetry(r) ==
    /\ proc[r].pc = "backoff"
    /\ AttemptsLeft(proc[r].attempt + 1)
    /\ proc' = [proc EXCEPT ![r].pc = "fetch", ![r].attempt = @ + 1, ![r].timer = 0,
                            ![r].sent = @ + 1, ![r].slept = @ + proc[r].timer]
    /\ inflight' = inflight \cup {Awaited(r)}
    /\ UNCHANGED <<runDisabled, downloadDisabled, statusText, resultsDisplay, table,
                   tableRun, datasetUrl, datasetFilename, blobs, peakLive, nruns,
                   lastDownload, arg, ret>>

\* lines 86, 80 and 89: the backoff sleep ends, no attempt is left and
\* result is undefined: enrich throws
BackoffGiveUp(r) ==
    /\ proc[r].pc = "backoff"
    /\ ~AttemptsLeft(proc[r].attempt + 1)
    /\ HandlerFailed(r)
    /\ UNCHANGED inflight

\* lines 100, 76-82: the pause ends and the next chunk is requested
PauseNextChunk(r) ==
    LET i == proc[r].i + MAX_BATCH
        n == Len(proc[r].codes)
    IN  /\ proc[r].pc = "pause"
        /\ i < n
        /\ statusText' = StatusFetching(i, n)
        /\ proc' = [proc EXCEPT ![r].pc = "fetch", ![r].i = i, ![r].attempt = 0,
                                ![r].timer = 0, ![r].sent = @ + 1, ![r].slept = 0,
                                ![r].carried = @ \o ChunkAt(proc[r].codes, i)]
        /\ inflight' = inflight \cup {Request(r, proc[r].codes, i)}
        /\ UNCHANGED <<runDisabled, downloadDisabled, resultsDisplay, table, tableRun,
                       datasetUrl, datasetFilename, blobs, peakLive, nruns,
                       lastDownload, arg, ret>>

\* lines 100, 76, 102-103: the pause ends after the last chunk, enrich
\* returns its rows and the handler finishes
PauseFinish(r) ==
    /\ proc[r].pc = "pause"
    /\ ~(proc[r].i + MAX_BATCH < Len(proc[r].codes))
    /\ HandlerCompleted(r, proc[r].rows)
    /\ UNCHANGED inflight

(***************************************************************************)
(* The download handler (lines 144-148 and 188-193)                        *)
(***************************************************************************)
DownloadClick ==
    /\ ~downloadDisabled
    /\ lastDownload' = IF datasetUrl = 0 THEN lastDownload
                       ELSE [name |-> datasetFilename, url |-> datasetUrl]
    /\ UNCHANGED <<runDisabled, downloadDisabled, statusText, resultsDisplay, table,
                   tableRun, datasetUrl, datasetFilename, blobs, peakLive, nruns, proc,
                   inflight, arg, ret>>

Next ==
    \/ \E raw \in Inputs : RunClickEmpty(raw)
    \/ \E raw \in Inputs : RunClickStart(raw)
    \/ \E r \in Runs : FetchFail(r)
    \/ \E r \in Runs : \E data \in ApiData(Awaited(r).codes) : FetchOk(r, data)
    \/ \E r \in Runs : \E data \in ApiData(Awaited(r).codes) : FetchOkThrows(r, data)
    \/ \E r \in Runs : BackoffRetry(r)
    \/ \E r \in Runs : BackoffGiveUp(r)
    \/ \E r \in Runs : PauseNextChunk(r)
    \/ \E r \in Runs : PauseFinish(r)
    \/ DownloadClick

allVars == <<vars, fnVars>>

Spec == Init /\ [][Next]_allVars

(***************************************************************************)
(* The state of the controller (section 4.5 of the design)                 *)
(***************************************************************************)
Active(r) == proc[r].pc \in {"fetch", "backoff", "pause"}

CtlState ==
    IF nruns = 0 THEN "Idle"
    ELSE IF Active(nruns) THEN "Running"
    ELSE IF proc[nruns].pc = "done" THEN "Done"
    ELSE "Failed"

\* the step ends run r in failure, or in success
EndsFailed(r) == Active(r) /\ proc'[r].pc = "failed"
EndsDone(r) == Active(r) /\ proc'[r].pc = "done"

\* the step sends a request for run r
Sends(r) == \E req \in inflight' \ inflight : req.run = r

\* the artifacts of run r
ArtifactsOf(bl, r) == {u \in 1..Len(bl) : bl[u].run = r}

(***************************************************************************)
(* C1  Retries of enrich                                                   *)
(***************************************************************************)
\* C1: every chunk gets at most 3 request attempts; when the third attempt
\* of a chunk has failed enrich ends with a fatal error and no row reaches
\* the page; and enrich fails for a chunk only then: a chunk one of whose
\* attempts succeeded does not make enrich fail.
C1_RetryPolicy ==
    /\ [](\A r \in Runs : proc[r].attempt < 3)
    /\ [][\A r \in Runs :
            /\ (proc[r].pc = "backoff" /\ proc[r].attempt = 2 /\ proc'[r] # proc[r])
                  => /\ proc'[r].pc = "failed"
                     /\ proc'[r].rows = <<>>
                     /\ table' = table /\ blobs' = blobs
            /\ (proc[r].pc = "backoff" /\ proc[r].attempt < 2 /\ proc'[r] # proc[r])
                  => /\ proc'[r].pc = "fetch" /\ proc'[r].attempt = proc[r].attempt + 1
                     /\ proc'[r].rows = proc[r].rows
            /\ EndsFailed(r) => (proc[r].pc = "backoff" /\ proc[r].attempt = 2)
         ]_allVars

(***************************************************************************)
(* C2  One row per code                                                    *)
(***************************************************************************)
\* the response has the documented shape: a result array with one element
\* for each code of the request
Documented(data, chunk) == data.hasResult /\ Len(data.result) = Len(chunk)

\* C2: when a request is answered with a response of the documented shape
\* (elements null-like or {query, result}), enrich goes on with one more row
\* for each code of the chunk, in the order of the codes; so a run all of
\* whose requests succeed returns one row per input code.
C2_OneRowPerCode ==
    [][\A r \in Runs :
         (/\ proc[r].pc = "fetch"
          /\ \E data \in ApiData(Awaited(r).codes) :
                /\ Documented(data, Awaited(r).codes)
                /\ FetchOk(r, data) \/ FetchOkThrows(r, data))
         => /\ proc'[r].pc = "pause"
            /\ Len(proc'[r].rows) = Min(proc[r].i + MAX_BATCH, Len(proc[r].codes))
            /\ \A k \in 1..Len(proc'[r].rows) :
                  proc'[r].rows[k].postcode = proc[r].codes[k]
      ]_allVars

(***************************************************************************)
(* C3  The old artifact is released before the new one is exposed          *)
(***************************************************************************)
\* C3: never are two artifacts unreleased at once, not even between the
\* statements of the handler, and an unreleased artifact is the one the
\* download control holds: when a run completes the old URL is revoked
\* before the new one is created and exposed.
C3_ReleaseBeforeExpose ==
    /\ peakLive <= 1
    /\ \A u \in LiveUrls(blobs) : u = datasetUrl
    /\ datasetUrl # 0 => blobs[datasetUrl].live

\* a second run has completed: the artifact of the first is revoked, the
\* artifact of the second is the one exposed
C3_Witness ==
    /\ Len(blobs) = 2
    /\ ~blobs[1].live /\ blobs[2].live
    /\ datasetUrl = 2 /\ ~downloadDisabled
    /\ blobs[1].run = 1 /\ blobs[2].run = 2

(***************************************************************************)
(* C4  The Failed state                                                    *)
(***************************************************************************)
\* C4: a step that ends a run in failure leaves the controller Failed: the
\* results view hidden, no table and no artifact of this run, the generic
\* error message as status, the download control disabled (and the run
\* control enabled again).
C4_FailedState ==
    [][\A r \in Runs :
         EndsFailed(r)
         => /\ CtlState' = "Failed"
            /\ resultsDisplay' = "none"
            /\ tableRun' # r /\ table' = table
            /\ ArtifactsOf(blobs', r) = {} /\ blobs' = blobs
            /\ datasetUrl' = datasetUrl
            /\ statusText' = StatusError
            /\ downloadDisabled'
      ]_allVars

\* a run has failed after an earlier run had put rows in the table and an
\* artifact on the download control
C4_Witness ==
    /\ nruns = 2 /\ proc[1].pc = "done" /\ proc[2].pc = "failed"
    /\ tableRun = 1 /\ table.body # <<>>
    /\ datasetUrl = 1
    /\ statusText = StatusError

(***************************************************************************)
(* C5  The download control                                                *)
(***************************************************************************)
\* C5: the download control is enabled only in the Done state, that is when
\* the most recent run ended successfully: it is disabled while a run is
\* Running, after a run that Failed, and before any run.
C5_DownloadOnlyAfterSuccess == ~downloadDisabled => CtlState = "Done"

\* a run is Running while the artifact of an earlier run is still held: the
\* download control is disabled
C5_Witness ==
    /\ CtlState = "Running" /\ nruns = 2 /\ proc[1].pc = "done"
    /\ datasetUrl = 1 /\ blobs[1].live
    /\ downloadDisabled

(***************************************************************************)
(* C6  One request at a time                                               *)
(***************************************************************************)
\* C6: at most one request is outstanding and at most one run is Running; a
\* request is sent only when none is outstanding, and it is the first
\* request of a run started while no run was Running, or a retry after the
\* failed attempt's backoff, or the request for the next chunk after the
\* previous chunk's response was mapped to rows.
C6_OneRequestAtATime ==
    /\ [](/\ Cardinality(inflight) <= 1
          /\ Cardinality({r \in Runs : Active(r)}) <= 1
          /\ \A r \in Runs : Active(r) => runDisabled)
    /\ [][\A r \in Runs :
            Sends(r)
            => /\ inflight = {}
               /\ Cardinality(inflight') = 1
               /\ \/ /\ proc[r].pc = "none"
                     /\ \A q \in Runs : ~Active(q)
                     /\ proc'[r].i = 0 /\ proc'[r].attempt = 0
                  \/ /\ proc[r].pc = "backoff"
                     /\ proc'[r].i = proc[r].i
                     /\ proc'[r].attempt = proc[r].attempt + 1
                  \/ /\ proc[r].pc = "pause"
                     /\ proc'[r].i = proc[r].i + MAX_BATCH
                     /\ Len(proc[r].rows) > 0 => Len(proc[r].rows) <= proc'[r].i
                     /\ proc'[r].attempt = 0
         ]_allVars

\* the request for the second chunk is outstanding, in its third attempt
C6_Witness ==
    \E r \in Runs :
       /\ proc[r].pc = "fetch" /\ proc[r].i = MAX_BATCH /\ proc[r].attempt = 2
       /\ Len(proc[r].rows) = MAX_BATCH
       /\ inflight = {Awaited(r)}

(***************************************************************************)
(* C7  Starting a run                                                      *)
(***************************************************************************)
\* the claim as stated: a run can be triggered in every state of the
\* controller, Running included, and a run that has been triggered leaves
\* no prior artifact behind
C7_RunInAnyState ==
    /\ nruns < MaxRuns => ENABLED (\E raw \in Inputs : RunClickStart(raw))
    /\ \A u \in LiveUrls(blobs) : blobs[u].run = nruns

\* C7 (amended): the run control is disabled exactly while a run is Running,
\* so a run starts only from Idle, Done or Failed; the start is a fresh
\* transition to Running (no rows, first chunk, first attempt) that keeps
\* the prior artifact and disables the download control; the prior artifact
\* is released only when the new run ends Done, before the new artifact is
\* created, and is still held and unreleased when the new run ends Failed.
C7_FreshRun ==
    /\ [](runDisabled <=> CtlState = "Running")
    /\ [][/\ nruns' # nruns
             => /\ CtlState # "Running" /\ CtlState' = "Running"
                /\ nruns' = nruns + 1
                /\ proc'[nruns'].rows = <<>> /\ proc'[nruns'].i = 0
                /\ proc'[nruns'].attempt = 0
                /\ blobs' = blobs /\ datasetUrl' = datasetUrl
                /\ downloadDisabled'
          /\ \A r \in Runs :
                /\ EndsFailed(r) => blobs' = blobs /\ datasetUrl' = datasetUrl
                /\ EndsDone(r)
                     => /\ datasetUrl # 0 => ~blobs'[datasetUrl].live
                        /\ datasetUrl' = Len(blobs') /\ Len(blobs') = Len(blobs) + 1
                        /\ blobs'[datasetUrl'].live /\ blobs'[datasetUrl'].run = r
                        /\ peakLive' <= 1
         ]_allVars

\* a run started from Done has ended Failed: the artifact of the earlier
\* run is still held and unreleased
C7_Witness ==
    /\ CtlState = "Failed" /\ nruns = 2
    /\ datasetUrl = 1 /\ blobs[1].live /\ blobs[1].run = 1
    /\ ~runDisabled /\ downloadDisabled

(***************************************************************************)
(* parsePostcodes on its own: the user types tokens, separated by commas   *)
(* or line breaks, and the text is parsed                                  *)
(***************************************************************************)
MaxTokens == 3

\* tokens that differ in case, spacing and punctuation, tokens of compacted
\* length 4, 5, 8 and 9, tokens that match the postcode shape and tokens
\* that do not, and the empty token
ParseTokens ==
    { <<"s","w","1","a"," ","1","a","a">>,
      <<"S","W","1","A","1","A","A">>,
      <<" ","S","w","1","a"," ","-"," ","1","A","a","\t">>,
      <<"m","1"," ","1","a","e">>,
      <<"M","1","1","A","E">>,
      <<"a","b","c","1">>,
      <<"A","B","1","2","C","D","E","F","G">>,
      <<"1","2","3","4","5">>,
      <<"A","B","C","D","1","2","E","F">>,
      <<>> }

ParseSeps == {<<",">>, <<"\r", "\n">>}

ParseInit ==
    /\ PageInit /\ resultsDisplay = "none"
    /\ arg = [raw |-> <<>>, typed |-> <<>>]
    /\ ret = parsePostcodes(<<>>)

TypeToken(t, sep) ==
    /\ Len(arg.typed) < MaxTokens
    /\ arg' = [raw |-> IF arg.typed = <<>> THEN t ELSE arg.raw \o sep \o t,
               typed |-> Append(arg.typed, t)]
    /\ ret' = parsePostcodes(arg'.raw)
    /\ UNCHANGED vars

ParseNext == \E t \in ParseTokens, sep \in ParseSeps : TypeToken(t, sep)

SpecParse == ParseInit /\ [][ParseNext]_allVars

\* the normalized tokens of the text typed, in order, empty ones left out
NormTyped == SelectSeq([k \in 1..Len(arg.typed) |-> normalize(arg.typed[k])], NonEmpty)

\* the place of the first occurrence of c in toks
FirstAt(toks, c) == CHOOSE k \in 1..Len(toks) : toks[k] = c /\ \A m \in 1..(k - 1) : toks[m] # c

(***************************************************************************)
(* C8  No duplicate, first-occurrence order                                *)
(***************************************************************************)
\* C8: the list parsePostcodes returns holds no code twice, holds the
\* normalized tokens of the input and nothing else, and holds them in the
\* order of their first occurrence among the normalized tokens.
C8_UniqueFirstSeen ==
    /\ \A i, j \in 1..Len(ret) : i # j => ret[i] # ret[j]
    /\ Range(ret) = Range(NormTyped)
    /\ \A i, j \in 1..Len(ret) :
          i < j => FirstAt(NormTyped, ret[i]) < FirstAt(NormTyped, ret[j])

\* three tokens typed, the third a respelling of the first: two codes out
C8_Witness ==
    /\ Len(arg.typed) = 3 /\ Len(NormTyped) = 3
    /\ arg.typed[1] # arg.typed[3]
    /\ NormTyped[1] = NormTyped[3] /\ NormTyped[1] # NormTyped[2]
    /\ ret = <<NormTyped[1], NormTyped[2]>>

(***************************************************************************)
(* C9  The length filter                                                   *)
(***************************************************************************)
\* the compacted form of the token has 5 to 8 characters
ValidLength(t) == Len(Compact(t)) >= 5 /\ Len(Compact(t)) <= 8

\* C9: every code of the output has a compacted length of 5 to 8; the
\* compacted forms of the output are those of the tokens of compacted
\* length 5 to 8; and the output is what it would be were the other tokens
\* not in the input.
C9_LengthFilter ==
    /\ \A c \in Range(ret) : ValidLength(c)
    /\ {Compact(c) : c \in Range(ret)}
         = {Compact(arg.typed[k]) : k \in {m \in 1..Len(arg.typed) : ValidLength(arg.typed[m])}}
    /\ ret = parsePostcodes(Join(SelectSeq(arg.typed, ValidLength), <<"\n">>))

\* a token of compacted length 4, one of length 9 and one of length 5: only
\* the last one is in the output
C9_Witness ==
    /\ Len(arg.typed) = 3
    /\ Len(Compact(arg.typed[1])) = 4
    /\ Len(Compact(arg.typed[2])) = 9
    /\ Len(Compact(arg.typed[3])) = 5
    /\ Len(ret) = 1 /\ Compact(ret[1]) = Compact(arg.typed[3])

(***************************************************************************)
(* toCSV on its own: rows are added to a row set and the set is exported   *)
(***************************************************************************)
MaxValLen == 1
MaxCsvRows == 2

CsvChars == {"a", ",", "\"", "\n", "\r"}

\* the texts of at most MaxValLen characters
CellValues ==
    UNION {[1..n -> CsvChars] : n \in 0..MaxValLen}

\* header lists of two columns, in either order
CsvHeaders == {<<"postcode", "country">>, <<"country", "postcode">>}

CsvInit ==
    /\ PageInit /\ resultsDisplay = "none"
    /\ \E h \in CsvHeaders :
          /\ arg = [header |-> h, rows |-> <<>>]
          /\ ret = toCSV(<<>>, h)

AddRow(row) ==
    /\ Len(arg.rows) < MaxCsvRows
    /\ arg' = [arg EXCEPT !.rows = Append(@, row)]
    /\ ret' = toCSV(arg'.rows, arg.header)
    /\ UNCHANGED vars

CsvNext == \E row \in [Range(arg.header) -> CellValues] : AddRow(row)

SpecCSV == CsvInit /\ [][CsvNext]_allVars

(***************************************************************************)
(* A standard comma/quote-aware CSV parser (RFC 4180): fields separated by *)
(* commas, records by a line feed or by a carriage return and a line feed, *)
(* a field in double quotes may hold commas, line breaks and doubled       *)
(* quotes, and the line break that ends the text starts no record.         *)
(* A carriage return with no line feed after it is an ordinary character.  *)
(***************************************************************************)
RECURSIVE ParseCSVFrom(_, _, _, _, _, _)
ParseCSVFrom(text, i, st, field, rec, recs) ==
    LET n == Len(text)
        c == text[i]
        crlf == c = "\r" /\ i < n /\ text[i + 1] = "\n"
        endField == ParseCSVFrom(text, i + 1, "field", <<>>, Append(rec, field), recs)
        endRecord == ParseCSVFrom(text, IF crlf THEN i + 2 ELSE i + 1, "record", <<>>,
                                  <<>>, Append(recs, Append(rec, field)))
        more(s) == ParseCSVFrom(text, i + 1, s, Append(field, c), rec, recs)
        skip(s) == ParseCSVFrom(text, i + 1, s, field, rec, recs)
    IN  IF i > n
        THEN IF st = "record" THEN recs ELSE Append(recs, Append(rec, field))
        ELSE IF st = "quoted"
             THEN IF c = "\"" THEN skip("closed") ELSE more("quoted")
        ELSE IF st = "closed" /\ c = "\"" THEN more("quoted")
        ELSE IF c = "," THEN endField
        ELSE IF c = "\n" \/ crlf THEN endRecord
        ELSE IF c = "\"" /\ st \in {"record", "field"} THEN skip("quoted")
        ELSE more("plain")

ParseCSV(text) == ParseCSVFrom(text, 1, "record", <<>>, <<>>, <<>>)

(***************************************************************************)
(* C10  CSV round trip                                                     *)
(***************************************************************************)
\* C10: parsing the text toCSV produces gives, after the header record, one
\* record for each row, holding the row's values in header order, exactly.
C10_RoundTrip ==
    LET recs == ParseCSV(ret)
    IN  /\ Len(recs) = Len(arg.rows) + 1
        /\ \A k \in 1..Len(arg.rows) :
              recs[k + 1] = [h \in 1..Len(arg.header) |-> arg.rows[k][arg.header[h]]]

(***************************************************************************)
(* Runs over long code lists: the user pastes one, five or six batches of  *)
(* codes, every request is answered, and the rows are rendered and         *)
(* exported                                                                *)
(***************************************************************************)
\* one more code than the table shows
LongN == TableCap + 1

\* the numbers of codes of the lists pasted
TableSizes == {1, TableCap - 1, LongN}

\* n distinct codes "<L><d><d> 1AA", as parsePostcodes returns them
LongCodes(n) ==
    [k \in 1..n |->
        <<UpperSeq[(k \div 100) + 1], DigitSeq[((k \div 10) % 10) + 1],
          DigitSeq[(k % 10) + 1], " ", "1", "A", "A">>]

\* the code list of each size, computed once
LongParsed == [n \in TableSizes |-> LongCodes(n)]

\* the bodies of the responses: the result array; for a request that
\* carries one code also a body with no result
TableData(chunk) ==
    IF Len(chunk) = 1 THEN ApiData(chunk)
    ELSE {data \in ApiData(chunk) : data.hasResult}

TableNext ==
    \/ \E n \in TableSizes : RunClickStartWith(LongParsed[n])
    \/ \E r \in Runs : \E data \in TableData(Awaited(r).codes) : FetchOk(r, data)
    \/ \E r \in Runs : PauseNextChunk(r)
    \/ \E r \in Runs : PauseFinish(r)
    \/ DownloadClick

SpecTable == Init /\ [][TableNext]_allVars

\* the places of the line feeds of a text, in order
LineFeeds(text) ==
    LET IsLineFeed(i) == text[i] = "\n"
    IN  SelectSeq([i \in 1..Len(text) |-> i], IsLineFeed)

\* the k-th line of a text with line feeds at the places lf (k >= 2)
LineAt(text, lf, k) ==
    SubSeq(text, lf[k - 1] + 1, IF k - 1 < Len(lf) THEN lf[k] - 1 ELSE Len(text))

(***************************************************************************)
(* C11  The table is capped, the CSV is not                                *)
(***************************************************************************)
\* C11: when a run ends Done with n rows, the table shown has the first
\* min(n, 500) rows, in order (no table is shown when n = 0), and the CSV
\* held for download has n data lines, the k-th being the line of row k.
C11_TableCappedCsvFull ==
    [][\A r \in Runs :
         EndsDone(r)
         => \A rows \in {proc[r].rows}, csv \in {blobs'[datasetUrl'].text} :
            \A n \in {Len(rows)}, lf \in {LineFeeds(csv)} :
                /\ n = 0 => resultsDisplay' = "none"
                /\ n > 0 => /\ resultsDisplay' = "block"
                            /\ tableRun' = r
                            /\ Len(table'.body) = (IF n < 500 THEN n ELSE 500)
                            /\ \A k \in 1..Len(table'.body) :
                                  /\ table'.body[k][1] = rows[k].postcode
                                  /\ Len(table'.body[k]) = 13
                /\ blobs'[datasetUrl'].run = r
                /\ Len(lf) = n
                /\ \A k \in 1..n : LineAt(csv, lf, k + 1) = CsvLine(rows[k], Header)
      ]_allVars

\* a run has ended Done with 501 rows: 500 of them are in the table shown
C11_Witness ==
    /\ CtlState = "Done"
    /\ statusText = StatusEnriched(LongN)
    /\ resultsDisplay = "block" /\ tableRun = nruns
    /\ Len(table.body) = TableCap
    /\ Len(LineFeeds(blobs[datasetUrl].text)) = LongN

(***************************************************************************)
(* C12  Linear backoff                                                     *)
(***************************************************************************)
\* the step answers the request run r awaits with a response that is ok
AnsweredOk(r) == proc[r].pc = "fetch" /\ proc'[r].pc \in {"pause", "failed", "done"}

\* C12: the sleep that follows the k-th failed attempt of a chunk lasts
\* 750*k ms, so the retry after the first failure is sent with 750 ms slept
\* and the retry after the second with 750+1500 ms slept in all; and when
\* the third attempt of a chunk is answered ok, after 750+1500 ms of
\* backoff, enrich goes on with the rows of that answer.
C12_LinearBackoff ==
    [][\A r \in Runs :
         /\ (proc[r].pc = "fetch" /\ proc'[r].pc = "backoff")
               => proc'[r].timer = 750 * (proc[r].attempt + 1)
         /\ (proc[r].pc = "backoff" /\ proc'[r].pc = "fetch")
               => /\ proc'[r].slept = proc[r].slept + 750 * proc'[r].attempt
                  /\ proc'[r].attempt = 1 => proc'[r].slept = 750
                  /\ proc'[r].attempt = 2 => proc'[r].slept = 750 + 1500
         /\ (AnsweredOk(r) /\ proc[r].attempt = 2)
               => /\ proc[r].slept = 750 + 1500
                  /\ proc'[r].pc = "pause"
                  /\ \E data \in ApiData(Awaited(r).codes) :
                        proc'[r].rows = proc[r].rows \o MapRows(ResultOrEmpty(data))
      ]_allVars

(***************************************************************************)
(* Scheduling: every request is eventually answered (the promise of fetch  *)
(* settles) and every sleep eventually elapses (the timer of setTimeout    *)
(* fires and the handler is resumed)                                       *)
(***************************************************************************)
\* the request run r awaits is answered, or fails
Respond(r) ==
    \/ FetchFail(r)
    \/ \E data \in ApiData(Awaited(r).codes) : FetchOk(r, data)
    \/ \E data \in ApiData(Awaited(r).codes) : FetchOkThrows(r, data)

\* the sleep of run r elapses
TimerFires(r) ==
    \/ BackoffRetry(r)
    \/ BackoffGiveUp(r)
    \/ PauseNextChunk(r)
    \/ PauseFinish(r)

\* the number of runs followed to their end
MaxLiveRuns == 1

LiveRuns == 1..MaxLiveRuns

FairNext == Next /\ nruns' <= MaxLiveRuns

FairSpec ==
    /\ Init /\ [][FairNext]_allVars
    /\ \A r \in LiveRuns : WF_allVars(Respond(r)) /\ WF_allVars(TimerFires(r))

\* ceil(n / 100)
Chunks(n) == (n + MAX_BATCH - 1) \div MAX_BATCH

(***************************************************************************)
(* C13  Every run ends                                                     *)
(***************************************************************************)
\* C13: every run that is Running eventually is Done or Failed; the step
\* that ends it, either way, leaves the run control enabled; and a run over
\* n codes has never sent more than 3*ceil(n/100) requests.
C13_RunEnds ==
    /\ \A r \in LiveRuns : Active(r) ~> (proc[r].pc \in {"done", "failed"})
    /\ [][\A r \in Runs : (EndsDone(r) \/ EndsFailed(r)) => ~runDisabled']_allVars
    /\ [](\A r \in Runs :
             Active(r) => proc[r].sent <= 3 * Chunks(Len(proc[r].codes)))

\* a run over two chunks is awaiting the last request it may send, its
\* sixth
C13_Witness ==
    \E r \in Runs :
       /\ proc[r].pc = "fetch" /\ Len(proc[r].codes) > MAX_BATCH
       /\ proc[r].sent = 3 * 2 /\ proc[r].attempt = 2

(***************************************************************************)
(* C14  The chunks                                                         *)
(***************************************************************************)
\* C14: every request of a run carries a consecutive slice of the code list
\* of 1 to 100 codes; the first request of each chunk carries the slice that
\* starts where the chunks requested before it end, and only the slice that
\* reaches the end of the list is shorter than 100; so the chunks requested
\* so far make up, in order, a prefix of the list, and the whole list when
\* the run ends Done; a run that ends Done has then sent ceil(n/100)
\* requests and one more for each failed attempt.
C14_ConsecutiveChunks ==
    /\ [](\A req \in inflight :
             LET codes == proc[req.run].codes
             IN  /\ Len(req.codes) >= 1 /\ Len(req.codes) <= 100
                 /\ req.from + Len(req.codes) <= Len(codes)
                 /\ \A k \in 1..Len(req.codes) : req.codes[k] = codes[req.from + k])
    /\ [](\A r \in Runs :
             Active(r) => /\ Len(proc[r].carried) <= Len(proc[r].codes)
                          /\ \A k \in 1..Len(proc[r].carried) :
                                proc[r].carried[k] = proc[r].codes[k])
    /\ [][\A r \in Runs :
            /\ (Sends(r) /\ proc'[r].attempt = 0)
                  => \E req \in inflight' :
                        /\ req.run = r
                        /\ req.from = Len(proc[r].carried)
                        /\ proc'[r].carried = proc[r].carried \o req.codes
                        /\ Len(req.codes) < 100 => proc'[r].carried = proc'[r].codes
            /\ (Sends(r) /\ proc'[r].attempt > 0)
                  => /\ inflight' = {Awaited(r)}
                     /\ proc'[r].carried = proc[r].carried
            /\ EndsDone(r)
                  => /\ proc[r].carried = proc[r].codes
                     /\ proc[r].sent = Chunks(Len(proc[r].codes)) + proc[r].fails
                     /\ proc[r].fails = 0 => proc[r].sent = Chunks(Len(proc[r].codes))
         ]_allVars

\* a run over 101 codes has had its two requests answered, none failed:
\* the first carried 100 codes, the second the last one
C14_Witness ==
    \E r \in Runs :
       /\ proc[r].pc = "pause" /\ Len(proc[r].codes) = MAX_BATCH + 1
       /\ proc[r].fails = 0 /\ proc[r].sent = 2
       /\ proc[r].carried = proc[r].codes
       /\ ~(proc[r].i + MAX_BATCH < Len(proc[r].codes))

(***************************************************************************)
(* C15  The row of a result item                                           *)
(***************************************************************************)
\* the row the design gives a result item: the postcode returned, or the
\* query when there is no match (or no postcode), in upper case; each
\* field the value of the result, or the empty text
RowAsDesigned(item, row) ==
    LET matched == item.kind = "match"
        returned == IF matched /\ "postcode" \in DOMAIN item.res
                    THEN item.res["postcode"] ELSE <<>>
        query == IF item.kind = "null" THEN <<>> ELSE item.query
    IN  /\ DOMAIN row = {"postcode"} \cup {FIELDS[k] : k \in 1..12}
        /\ row["postcode"] = toUpperCase(IF returned # <<>> THEN returned ELSE query)
        /\ \A k \in 1..12 :
              row[FIELDS[k]] =
                 IF matched /\ FIELDS[k] \in DOMAIN item.res /\ item.res[FIELDS[k]] # Null
                 THEN item.res[FIELDS[k]]
                 ELSE <<>>

\* C15: when a request is answered ok, enrich goes on with one more row for
\* each item of the result, in order: its postcode is the postcode the API
\* returned, in upper case, when the item is a match, and the query, in
\* upper case, when it is not; each of the 12 fields is the value of the
\* result, and the empty text when the field is absent or null or the item
\* is no match.
C15_RowOfItem ==
    [][\A r \in Runs :
         AnsweredOk(r)
         => \E data \in ApiData(Awaited(r).codes) :
              \A result \in {ResultOrEmpty(data)} :
                 /\ proc'[r].pc = "pause"
                 /\ Len(proc'[r].rows) = Len(proc[r].rows) + Len(result)
                 /\ \A k \in 1..Len(result) :
                       RowAsDesigned(result[k], proc'[r].rows[Len(proc[r].rows) + k])
      ]_allVars

(***************************************************************************)
(* C16  One artifact, and the download control                             *)
(***************************************************************************)
\* C16: in every state at most one object URL is created and not revoked;
\* whenever the download button is enabled the URL it holds is one that is
\* not revoked; a file is handed to the browser only for the unrevoked URL
\* the button holds, and while the button holds no URL a click on it does
\* nothing (it is disabled, and no file is handed over).
C16_OneArtifactHeld ==
    /\ [](Cardinality(LiveUrls(blobs)) <= 1)
    /\ [](~downloadDisabled => datasetUrl \in LiveUrls(blobs))
    /\ [](datasetUrl = 0 => downloadDisabled /\ ~ENABLED DownloadClick)
    /\ [][/\ datasetUrl = 0 => lastDownload' = lastDownload
          /\ lastDownload' # lastDownload
             => /\ datasetUrl \in LiveUrls(blobs)
                /\ lastDownload' = [name |-> datasetFilename, url |-> datasetUrl]
                /\ UNCHANGED <<blobs, datasetUrl, downloadDisabled>>
       ]_allVars

\* the file of a second completed run is downloaded: its URL is the only
\* one not revoked
C16_Witness ==
    /\ Len(blobs) = 2
    /\ LiveUrls(blobs) = {2}
    /\ ~downloadDisabled
    /\ lastDownload = [name |-> 2, url |-> 2]

(***************************************************************************)
(* C17  Nothing to enrich                                                  *)
(***************************************************************************)
\* lines 74-75 and 102-103: enrich applied on its own to the empty list;
\* the loop over the chunks is not entered and the call returns at once
EnrichEmptyList ==
    \E entry \in {EnrichEntry(0, <<>>)} :
        /\ statusText' = entry.status
        /\ inflight' = inflight \cup entry.requests
        /\ arg' = <<>>
        /\ ret' = IF entry.returns THEN entry.rows ELSE <<"pending">>
        /\ UNCHANGED <<runDisabled, downloadDisabled, resultsDisplay, table, tableRun,
                       datasetUrl, datasetFilename, blobs, peakLive, nruns, proc,
                       lastDownload>>

EnrichNext == Next \/ EnrichEmptyList

\* the page, where enrich may also be applied on its own to the empty list
SpecEnrich == Init /\ [][EnrichNext]_allVars

\* C17: a click on the run button whose input holds no valid postcode is
\* answered whenever the button is enabled, starts no run and sends no
\* request, and changes nothing but the status text: the two buttons, the
\* results view, the table and the artifact held stay as they are.  enrich
\* applied to the empty list returns no rows, leaves "Done. 0 rows." as the
\* status and sends no request.
C17_NothingToEnrich ==
    /\ [](\A raw \in Inputs :
             Parsed[raw] = <<>>
             => /\ ENABLED RunClickEmpty(raw) <=> ~runDisabled
                /\ ~ENABLED RunClickStart(raw))
    /\ [][statusText # StatusPaste /\ statusText' = StatusPaste
          => UNCHANGED <<runDisabled, downloadDisabled, resultsDisplay, table,
                         tableRun, datasetUrl, datasetFilename, blobs, nruns, proc,
                         inflight, lastDownload>>
       ]_allVars
    /\ [][EnrichEmptyList
          => /\ statusText' = StatusDone(0)
             /\ ret' = <<>>
             /\ inflight' = inflight
       ]_allVars

\* "Please paste at least one postcode." after a completed run: the results
\* are still shown and the artifact is still held, the buttons enabled
C17_Witness ==
    /\ statusText = StatusPaste
    /\ CtlState = "Done"
    /\ ~runDisabled /\ ~downloadDisabled
    /\ resultsDisplay = "block"
    /\ datasetUrl \in LiveUrls(blobs)
    /\ inflight = {}

\* enrich has been applied to the empty list
C17_EmptyListDone == statusText = StatusDone(0) /\ ret = <<>> /\ inflight = {}

(***************************************************************************)
(* C18  The canonical form of a token                                      *)
(***************************************************************************)
\* the letters and digits of a token, in upper case
Alnums(t) ==
    LET keep == SelectSeq(t, LAMBDA ch : \/ ch \in Range(UpperSeq)
                                         \/ ch \in Range(LowerSeq)
                                         \/ ch \in Range(DigitSeq))
    IN  [i \in 1..Len(keep) |->
           IF \E k \in 1..26 : LowerSeq[k] = keep[i]
           THEN UpperSeq[CHOOSE k \in 1..26 : LowerSeq[k] = keep[i]]
           ELSE keep[i]]

\* "L" for a letter and "D" for a digit, character by character
ClassOf(c) == [i \in 1..Len(c) |-> IF c[i] \in Range(DigitSeq) THEN "D" ELSE "L"]

\* the full postcode shape: one or two letters, a digit, an optional letter
\* or digit, then a digit and two letters
FullShapes ==
    { <<"L","D","D","L","L">>,
      <<"L","D","L","D","L","L">>, <<"L","D","D","D","L","L">>,
      <<"L","L","D","D","L","L">>,
      <<"L","L","D","L","D","L","L">>, <<"L","L","D","D","D","L","L">> }

\* the code a token of valid length stands for
Canonical(t) ==
    LET c == Alnums(t)
        n == Len(c)
    IN  IF ClassOf(c) \in FullShapes
        THEN [i \in 1..(n + 1) |->
                IF i <= n - 3 THEN c[i] ELSE IF i = n - 2 THEN " " ELSE c[i - 1]]
        ELSE c

Spaces(code) == {i \in 1..Len(code) : code[i] = " "}

\* C18: for a token whose compacted form has 5 to 8 characters
\* parsePostcodes gives one code: the compacted upper-case form, with one
\* space, before its last three characters, when that form has the full
\* postcode shape, and with no space when it has not.  Tokens that differ
\* only in case, spacing and punctuation give the same code, once.
C18_CanonicalForm ==
    /\ \A k \in 1..Len(arg.typed) :
          \A t \in {arg.typed[k]} :
             Len(Alnums(t)) \in 5..8
             => /\ parsePostcodes(t) = <<Canonical(t)>>
                /\ Canonical(t) \in Range(ret)
                /\ Spaces(Canonical(t)) \in {{}, {Len(Alnums(t)) - 2}}
    /\ \A c \in Range(ret) :
          \E k \in 1..Len(arg.typed) :
             Len(Alnums(arg.typed[k])) \in 5..8 /\ c = Canonical(arg.typed[k])
    /\ \A j, k \in 1..Len(arg.typed) :
          (Len(Alnums(arg.typed[j])) \in 5..8 /\ Alnums(arg.typed[j]) = Alnums(arg.typed[k]))
          => /\ parsePostcodes(arg.typed[j] \o <<"\n">> \o arg.typed[k])
                  = <<Canonical(arg.typed[j])>>
             /\ Cardinality({i \in 1..Len(ret) : ret[i] = Canonical(arg.typed[k])}) = 1

\* three spellings of one postcode typed: one code, spaced
C18_Witness ==
    /\ Len(arg.typed) = 3
    /\ Cardinality(Range(arg.typed)) = 3
    /\ \A k \in 1..3 : Alnums(arg.typed[k]) = <<"S","W","1","A","1","A","A">>
    /\ ret = << <<"S","W","1","A"," ","1","A","A">> >>

\* a token of full shape and a token of valid length without it: the first
\* spaced, the second not
C18_BothForms ==
    /\ Len(ret) = 2
    /\ Spaces(ret[1]) = {Len(ret[1]) - 3}
    /\ Spaces(ret[2]) = {} /\ Len(ret[2]) = 8

(***************************************************************************)
(* C19  parsePostcodes on its own output                                   *)
(***************************************************************************)
\* C19: the codes parsePostcodes returns, joined by line feeds or by commas
\* and parsed again, come out unchanged: the same codes in the same order.
C19_Idempotent ==
    \A out \in {ret} :
       /\ parsePostcodes(Join(out, <<"\n">>)) = out
       /\ parsePostcodes(Join(out, <<",">>)) = out

\* three codes out, two with the space and one of eight characters without
C19_Witness ==
    /\ Len(ret) = 3
    /\ Cardinality({k \in 1..3 : \E i \in 1..Len(ret[k]) : ret[k][i] = " "}) = 2
    /\ \E k \in 1..3 : Len(ret[k]) = 8 /\ \A i \in 1..8 : ret[k][i] # " "
    /\ parsePostcodes(Join(ret, <<",">>)) = ret

====
